---- MODULE Spec2Model ----
(***************************************************************************)
(* Comment threads of the basketball forum: the comments and posts         *)
(* collections of the document store, the descendant resolver              *)
(* (getAllCommentDescendants), the cascade delete (deleteComment) run by   *)
(* browser sessions step by step, and comment / post creation.             *)
(***************************************************************************)
EXTENDS Integers, Sequences, FiniteSets, TLC

\* ------------------------------------------------------------------ bounds
NumClients == 2
MaxPosts == 2
MaxComments == 3
MaxList == 5
MaxDeletes == 2

Clients == 1..NumClients
PostIds == 1..MaxPosts

\* parentId: null of a top-level comment
NoParent == 0

VARIABLES
  comments,        \* the store's comments collection: a set of comment documents
  posts,           \* the store's posts collection: post id -> [id, commentCount]
  nextId,          \* the next auto-generated comment document id
  deletes,         \* number of deleteComment calls made so far
  created,         \* history: every comment document ever written; a session's
                   \* comment list is a past snapshot, so it may show any of them
  pc,              \* position of the session's deleteComment call
  commentId,       \* deleteComment argument
  postId,          \* deleteComment argument
  allComments,     \* deleteComment local: the list fetched for the post
  descendants,     \* deleteComment local: result of getAllCommentDescendants
  pending,         \* descendant deleteDoc requests issued and not yet settled
  totalDeleted,    \* deleteComment local / return value
  error,           \* the store operation whose error deleteComment rethrew
  pre,             \* history: store contents when the deleteComment call began
  listArg,         \* resolver input: the comment list
  idArg,           \* resolver input: the comment id
  descOut,         \* resolver call: whether it ran, and the array it returned
  walkOut,         \* resolver call on a bounded call stack: its outcome
  users,           \* the store's users collection: documents [id, username]
  nextUid,         \* the next uid the authentication service hands out
  signup,          \* per session: the createUser call in progress
  form,            \* per session: the signup form's username field
  nameArg,         \* validateUsername input
  nameOut,         \* validateUsername call: whether it ran, and its result
  textArg,         \* renderContentWithMentions input: the comment's content
  textOut,         \* renderContentWithMentions call: the parts and what is rendered
  view,            \* per session: the comments subscription and the client list
  pageOut,         \* CommentSection render of the list: the blocks it puts on the page
  authUid,         \* per session: the uid the identity provider has signed it in as
  ctx,             \* per session: the AuthContext user
  listener,        \* per session: the onAuthStateChanged callback in progress
  reply            \* per session: CommentSection's replyingTo, the mention in the
                   \* comment input and the username lookups in flight

storeVars == <<comments, posts, nextId, created, deletes>>
runVars == <<pc, commentId, postId, allComments, descendants, pending, totalDeleted, error, pre>>
descVars == <<listArg, idArg, descOut>>
walkVars == <<walkOut>>
userVars == <<users, nextUid, signup, form>>
nameVars == <<nameArg, nameOut>>
textVars == <<textArg, textOut>>
viewVars == <<view>>
pageVars == <<pageOut>>
authVars == <<authUid, ctx, listener>>
replyVars == <<reply>>
extraVars == <<pageVars, replyVars>>
sideVars == <<walkVars, userVars, nameVars, textVars, viewVars, extraVars, authVars>>
commentVars == <<storeVars, runVars, descVars, walkVars>>
vars == <<comments, posts, nextId, created, deletes,
          pc, commentId, postId, allComments, descendants, pending, totalDeleted, error, pre,
          listArg, idArg, descOut, walkOut,
          users, nextUid, signup, form, nameArg, nameOut,
          textArg, textOut, view, pageOut, authUid, ctx, listener, reply>>

\* ------------------------------------------------------------ pure helpers

\* A snapshot's docs as the array the SDK hands over (document-id order).
RECURSIVE SnapshotDocs(_)
SnapshotDocs(S) ==
  IF S = {} THEN <<>>
  ELSE LET m == CHOOSE d \in S : \A e \in S : d.id <= e.id
       IN <<m>> \o SnapshotDocs(S \ {m})

\* allComments.filter(c => c.parentId === commentId)
DirectReplies(cid, list) == SelectSeq(list, LAMBDA c : c.parentId = cid)

\* (mutant) the direct replies only, without the recursive expansion
DirectRepliesOnly(cid, list) == SelectSeq(list, LAMBDA c : c.parentId = cid)

\* (mutant) a comment without replies is returned as its own descendant
SelfWhenNoReplies(cid, list) ==
  IF DirectReplies(cid, list) = <<>>
  THEN SelectSeq(list, LAMBDA c : c.id = cid)
  ELSE DirectReplies(cid, list)

RECURSIVE getAllCommentDescendants(_, _)
getAllCommentDescendants(cid, list) ==
  LET directReplies == DirectReplies(cid, list)
      nested[i \in 0..Len(directReplies)] ==
        IF i = 0 THEN <<>>
        ELSE nested[i - 1] \o getAllCommentDescendants(directReplies[i].id, list)
  IN directReplies \o nested[Len(directReplies)]

Range(s) == {s[i] : i \in 1..Len(s)}
Ids(S) == {d.id : d \in S}

\* where('postId', '==', postId)
CommentsOfPost(p) == {d \in comments : d.postId = p}

\* ------------------------------------------------------------- seed data

\* sampleData.ts, the thread of sample post '2' (comments '4' and '5'): a
\* top-level comment and one reply to it by another user, renumbered.
SampleComments ==
  { [id |-> 1, postId |-> 1, parentId |-> NoParent, authorId |-> 2],
    [id |-> 2, postId |-> 1, parentId |-> 1, authorId |-> 1] }

\* seedData.ts convertPostToFirestore: commentCount is the number of sample
\* comments of the post.
convertPostToFirestore(p, sample) ==
  [id |-> p, commentCount |-> Cardinality({c \in sample : c.postId = p})]

\* ------------------------------------------------------------ store ops

\* (mutant) the delete goes to another collection and leaves comments as it was
DeleteDocElsewhere(store, id) == store

\* deleteDoc(doc(db, 'comments', id)): removing an absent document is a no-op
DeleteDoc(store, id) == {d \in store : d.id # id}

\* (mutant) the update writes the delta as the new count instead of adding it
SetCommentCount(ps, p, delta) ==
  [ps EXCEPT ![p].commentCount = delta]

\* (mutant) the post document is rewritten with the count alone, its other
\* fields lost
ReplacePost(ps, p, delta) ==
  [ps EXCEPT ![p] = [id |-> 0, commentCount |-> ps[p].commentCount + delta]]

\* updateDoc(doc(db, 'posts', p), { commentCount: increment(delta) }): the
\* other fields of the document stay
IncrementCommentCount(ps, p, delta) ==
  [ps EXCEPT ![p].commentCount = @ + delta]

\* addPost: id: docRef.id, ..., commentCount: 0
NewPost(id) == [id |-> id, commentCount |-> 0]

\* addComment: the document written by setDoc
NewComment(id, p, author, parent) ==
  [id |-> id, postId |-> p, parentId |-> parent, authorId |-> author]

NoPre == [comments |-> {}, count |-> 0]
NotRun == [ran |-> FALSE, result |-> <<>>]

\* ------------------------------------------------------------------ Init

RunInit ==
  /\ pc = [c \in Clients |-> "idle"]
  /\ commentId = [c \in Clients |-> 0]
  /\ postId = [c \in Clients |-> 0]
  /\ allComments = [c \in Clients |-> <<>>]
  /\ descendants = [c \in Clients |-> <<>>]
  /\ pending = [c \in Clients |-> {}]
  /\ totalDeleted = [c \in Clients |-> 0]
  /\ error = [c \in Clients |-> "none"]
  /\ pre = [c \in Clients |-> NoPre]

DescIdle ==
  /\ listArg = <<>>
  /\ idArg = 0
  /\ descOut = NotRun

\* The store holds what seedFirestore wrote.
StoreInit ==
  /\ comments = SampleComments
  /\ posts = <<convertPostToFirestore(1, SampleComments)>>
  /\ nextId = Cardinality(SampleComments) + 1
  /\ created = SampleComments
  /\ deletes = 0

\* ------------------------------------------------------------- usernames

\* A string is the sequence of its characters.
LowerLetters == <<"a", "b", "c", "d", "e", "f", "g", "h", "i", "j", "k", "l", "m",
                  "n", "o", "p", "q", "r", "s", "t", "u", "v", "w", "x", "y", "z">>
UpperLetters == <<"A", "B", "C", "D", "E", "F", "G", "H", "I", "J", "K", "L", "M",
                  "N", "O", "P", "Q", "R", "S", "T", "U", "V", "W", "X", "Y", "Z">>
Digits == {"0", "1", "2", "3", "4", "5", "6", "7", "8", "9"}
Whitespace == {" "}

\* String.prototype.toLowerCase, character by character
LowerChar(ch) ==
  IF \E i \in 1..Len(UpperLetters) : UpperLetters[i] = ch
  THEN LowerLetters[CHOOSE i \in 1..Len(UpperLetters) : UpperLetters[i] = ch]
  ELSE ch

toLowerCase(str) == [i \in 1..Len(str) |-> LowerChar(str[i])]

\* String.prototype.trim
RECURSIVE trim(_)
trim(str) ==
  IF str = <<>> THEN <<>>
  ELSE IF Head(str) \in Whitespace THEN trim(Tail(str))
  ELSE IF str[Len(str)] \in Whitespace THEN trim(SubSeq(str, 1, Len(str) - 1))
  ELSE str

\* the character class [a-zA-Z0-9_]
WordChar(ch) ==
  \/ \E i \in 1..Len(LowerLetters) : LowerLetters[i] = ch
  \/ \E i \in 1..Len(UpperLetters) : UpperLetters[i] = ch
  \/ ch \in Digits
  \/ ch = "_"

\* /^[a-zA-Z0-9_]+$/.test(username)
MatchesWordChars(str) == Len(str) > 0 /\ \A i \in 1..Len(str) : WordChar(str[i])

MinUsernameLength == 3
MaxUsernameLength == 20

\* (mutant) the upper length check uses >= instead of >
validateUsernameShorter(username) ==
  IF username = <<>> THEN [isValid |-> FALSE, error |-> "Username is required"]
  ELSE IF Len(username) < MinUsernameLength
    THEN [isValid |-> FALSE, error |-> "Username must be at least 3 characters long"]
  ELSE IF Len(username) >= MaxUsernameLength
    THEN [isValid |-> FALSE, error |-> "Username must be no more than 20 characters long"]
  ELSE IF ~MatchesWordChars(username)
    THEN [isValid |-> FALSE,
          error |-> "Username can only contain letters, numbers, and underscores"]
  ELSE [isValid |-> TRUE, error |-> ""]

validateUsername(username) ==
  IF username = <<>> THEN [isValid |-> FALSE, error |-> "Username is required"]
  ELSE IF Len(username) < MinUsernameLength
    THEN [isValid |-> FALSE, error |-> "Username must be at least 3 characters long"]
  ELSE IF Len(username) > MaxUsernameLength
    THEN [isValid |-> FALSE, error |-> "Username must be no more than 20 characters long"]
  ELSE IF ~MatchesWordChars(username)
    THEN [isValid |-> FALSE,
          error |-> "Username can only contain letters, numbers, and underscores"]
  ELSE [isValid |-> TRUE, error |-> ""]

\* checkUsernameExists: where('username', '==', username); !snapshot.empty
UsernameExists(docs, username) == \E u \in docs : u.username = username

\* createUser: the document written by setDoc(doc(db, 'users', uid), userData)
UserData(uid, username) == [id |-> uid, username |-> trim(toLowerCase(username))]

NoSignup == [pc |-> "idle", username |-> <<>>, uid |-> 0, error |-> "", passed |-> FALSE,
             fromForm |-> FALSE]

\* AuthModal state: username, errors.username, the armed debounce timer,
\* usernameAvailable / the outcome of the last availability check, and the
\* value of the availability check that is in flight (asked, at most one)
EmptyForm == [username |-> <<>>, typed |-> <<>>, error |-> "", timer |-> FALSE,
              report |-> "none", asked |-> <<>>]
NameNotRun == [ran |-> FALSE, isValid |-> FALSE, error |-> ""]

\* No user document of the seed data has a username field.
UserInit ==
  /\ users = {}
  /\ nextUid = 1
  /\ signup = [c \in Clients |-> NoSignup]
  /\ form = [c \in Clients |-> EmptyForm]

NameIdle ==
  /\ nameArg = <<>>
  /\ nameOut = NameNotRun

WalkNotRun == [ran |-> FALSE, returned |-> FALSE, result |-> <<>>]

WalkIdle == walkOut = WalkNotRun

TextNotRun == [ran |-> FALSE, parts |-> <<>>, rendered |-> <<>>]

TextIdle ==
  /\ textArg = <<>>
  /\ textOut = TextNotRun

\* ForumContent / PostDetailPage before mount: no listener, comments = []
NoView == [sub |-> "none", list |-> <<>>]

ViewInit == view = [c \in Clients |-> NoView]

\* CommentSection before it has rendered anything
PageNotRun == [ran |-> FALSE, blocks |-> <<>>, modalCount |-> <<>>]

PageIdle == pageOut = PageNotRun

\* AuthProvider before anyone has signed in: user = null
NoUser == [id |-> 0, username |-> <<>>]
NoCallback == [pc |-> "idle", uid |-> 0, username |-> <<>>]

AuthInit ==
  /\ authUid = [c \in Clients |-> 0]
  /\ ctx = [c \in Clients |-> NoUser]
  /\ listener = [c \in Clients |-> NoCallback]

\* CommentSection: replyingTo = null, newComment = '', no lookup started
NoReply == [replyingTo |-> 0, mention |-> 0, lookups |-> {}]

ReplyInit == reply = [c \in Clients |-> NoReply]

ExtraIdle == PageIdle /\ AuthInit /\ ReplyInit

SideIdle == WalkIdle /\ UserInit /\ NameIdle /\ TextIdle /\ ViewInit /\ ExtraIdle

Init ==
  /\ StoreInit
  /\ RunInit
  /\ DescIdle
  /\ SideIdle

\* --------------------------------------------------------------- actions

\* addPost (firestore.ts) through ForumContent.addPost
AddPost(c) ==
  /\ Len(posts) < MaxPosts
  /\ posts' = Append(posts, NewPost(Len(posts) + 1))
  /\ UNCHANGED <<comments, nextId, created, deletes>>
  /\ UNCHANGED runVars
  /\ UNCHANGED descVars
  /\ UNCHANGED sideVars

\* CommentSection.handleCommentSubmit: onAddComment(postId, content, replyingTo),
\* replyingTo being null or the id of a comment of this post the session
\* displayed when Reply was clicked (it may have been deleted since).
ReplyTargets(p) == {NoParent} \cup {x.id : x \in {y \in created : y.postId = p}}

\* handleCommentSubmit -> handleAddComment -> addComment: one setDoc of the new
\* comment document, which succeeds (ok) or fails. Nothing here touches the
\* post document.
AddCommentDoc(c, p, parent, ok) ==
  /\ p \in DOMAIN posts
  /\ parent \in ReplyTargets(p)
  /\ nextId <= MaxComments
  /\ IF ok
     THEN /\ comments' = comments \cup {NewComment(nextId, p, c, parent)}
          /\ created' = created \cup {NewComment(nextId, p, c, parent)}
          /\ nextId' = nextId + 1
     ELSE UNCHANGED <<comments, created, nextId>>
  /\ UNCHANGED <<posts, deletes>>

\* the same with the section's reply state left out of the picture: the
\* parent is whatever replyingTo held
CommentSubmit(c, p, parent, ok) ==
  /\ AddCommentDoc(c, p, parent, ok)
  /\ UNCHANGED runVars
  /\ UNCHANGED descVars
  /\ UNCHANGED sideVars

\* (mutant) the delete button is rendered on every comment
AnyoneCanDelete(c, x) == TRUE

\* CommentSection.renderComment: inside the isAuthenticated branch, the delete
\* button exists only on a comment whose author is the session's user
\* (user?.id === comment.author.id). A session is a signed-in user.
CanDelete(c, x) == c = x.authorId

\* openDeleteModal(comment.id), then DeleteCommentModal.handleConfirm:
\* handleDeleteConfirm calls deleteComment(commentToDelete, postId), whose first
\* store operation is the list read. x is a comment the session displays.
\* With track, the history variable pre records the store at the call.
DeleteConfirm(c, x, track) ==
  /\ x \in created
  /\ CanDelete(c, x)
  /\ pc[c] = "idle"
  /\ deletes < MaxDeletes
  /\ deletes' = deletes + 1
  /\ pc' = [pc EXCEPT ![c] = "read"]
  /\ commentId' = [commentId EXCEPT ![c] = x.id]
  /\ postId' = [postId EXCEPT ![c] = x.postId]
  /\ pre' = [pre EXCEPT ![c] =
               IF track
               THEN [comments |-> comments, count |-> posts[x.postId].commentCount]
               ELSE NoPre]
  /\ UNCHANGED <<allComments, descendants, pending, totalDeleted, error>>
  /\ UNCHANGED <<comments, posts, nextId, created>>
  /\ UNCHANGED descVars
  /\ UNCHANGED sideVars

\* deleteComment steps 1-3: getDocs resolves, the descendants are computed and
\* one deleteDoc per descendant is issued (descendants.map(...)).
DeleteRead(c) ==
  /\ pc[c] = "read"
  /\ LET list == SnapshotDocs(CommentsOfPost(postId[c]))
         desc == getAllCommentDescendants(commentId[c], list)
     IN  /\ allComments' = [allComments EXCEPT ![c] = list]
         /\ descendants' = [descendants EXCEPT ![c] = desc]
         /\ pending' = [pending EXCEPT ![c] = Ids(Range(desc))]
  /\ pc' = [pc EXCEPT ![c] = "descendants"]
  /\ UNCHANGED <<commentId, postId, totalDeleted, error, pre>>
  /\ UNCHANGED storeVars
  /\ UNCHANGED descVars
  /\ UNCHANGED sideVars

\* the list read rejects: deleteComment rethrows
ReadFail(c) ==
  /\ pc[c] = "read"
  /\ pc' = [pc EXCEPT ![c] = "failed"]
  /\ error' = [error EXCEPT ![c] = "read"]
  /\ UNCHANGED <<commentId, postId, allComments, descendants, pending, totalDeleted, pre>>
  /\ UNCHANGED storeVars
  /\ UNCHANGED descVars
  /\ UNCHANGED sideVars

\* one of the issued descendant deletes takes effect; the requests of a
\* Promise.all that has already rejected are still in flight and settle too
DeleteDescendant(c, d) ==
  /\ d \in pending[c]
  /\ comments' = DeleteDoc(comments, d)
  /\ pending' = [pending EXCEPT ![c] = @ \ {d}]
  /\ UNCHANGED <<posts, nextId, created, deletes>>
  /\ UNCHANGED <<pc, commentId, postId, allComments, descendants, totalDeleted, error, pre>>
  /\ UNCHANGED descVars
  /\ UNCHANGED sideVars

\* (mutant) the rejection is recorded and the call carries on
DescendantFailContinues(c, d) ==
  /\ d \in pending[c]
  /\ pending' = [pending EXCEPT ![c] = @ \ {d}]
  /\ error' = [error EXCEPT ![c] = "descendant"]
  /\ UNCHANGED <<pc, commentId, postId, allComments, descendants, totalDeleted, pre>>
  /\ UNCHANGED storeVars
  /\ UNCHANGED descVars
  /\ UNCHANGED sideVars

\* one of the issued descendant deletes rejects: Promise.all rejects, and
\* deleteComment rethrows
DescendantFail(c, d) ==
  /\ d \in pending[c]
  /\ pending' = [pending EXCEPT ![c] = @ \ {d}]
  /\ pc' = [pc EXCEPT ![c] = "failed"]
  /\ error' = [error EXCEPT ![c] = IF pc[c] = "failed" THEN @ ELSE "descendant"]
  /\ UNCHANGED <<commentId, postId, allComments, descendants, totalDeleted, pre>>
  /\ UNCHANGED storeVars
  /\ UNCHANGED descVars
  /\ UNCHANGED sideVars

\* (mutant) the descendant deletes are not awaited
DescendantsNotAwaited(c) == TRUE

\* await Promise.all(...): every descendant delete has resolved
DescendantsSettled(c) == pending[c] = {}

\* step 4 is issued: deleteDoc(doc(db, 'comments', commentId))
AwaitDescendants(c) ==
  /\ pc[c] = "descendants"
  /\ DescendantsSettled(c)
  /\ pc' = [pc EXCEPT ![c] = "target"]
  /\ UNCHANGED <<commentId, postId, allComments, descendants, pending, totalDeleted, error, pre>>
  /\ UNCHANGED storeVars
  /\ UNCHANGED descVars
  /\ UNCHANGED sideVars

\* (mutant) the target itself is not counted
TotalDeletedNoTarget(desc) == Len(desc)

\* const totalDeleted = descendants.length + 1
TotalDeleted(desc) == Len(desc) + 1

\* step 4 takes effect; step 5 is issued with totalDeleted
DeleteTarget(c) ==
  /\ pc[c] = "target"
  /\ comments' = DeleteDoc(comments, commentId[c])
  /\ totalDeleted' = [totalDeleted EXCEPT ![c] = TotalDeleted(descendants[c])]
  /\ pc' = [pc EXCEPT ![c] = "counter"]
  /\ UNCHANGED <<posts, nextId, created, deletes>>
  /\ UNCHANGED <<commentId, postId, allComments, descendants, pending, error, pre>>
  /\ UNCHANGED descVars
  /\ UNCHANGED sideVars

TargetFail(c) ==
  /\ pc[c] = "target"
  /\ pc' = [pc EXCEPT ![c] = "failed"]
  /\ error' = [error EXCEPT ![c] = "target"]
  /\ UNCHANGED <<commentId, postId, allComments, descendants, pending, totalDeleted, pre>>
  /\ UNCHANGED storeVars
  /\ UNCHANGED descVars
  /\ UNCHANGED sideVars

\* step 5 takes effect: commentCount: increment(-totalDeleted); return totalDeleted
UpdateCounter(c) ==
  /\ pc[c] = "counter"
  /\ posts' = IncrementCommentCount(posts, postId[c], 0 - totalDeleted[c])
  /\ pc' = [pc EXCEPT ![c] = "done"]
  /\ UNCHANGED <<comments, nextId, created, deletes>>
  /\ UNCHANGED <<commentId, postId, allComments, descendants, pending, totalDeleted, error, pre>>
  /\ UNCHANGED descVars
  /\ UNCHANGED sideVars

\* (mutant) the decrement is applied although the update reports an error
CounterFailApplied(c) ==
  /\ pc[c] = "counter"
  /\ posts' = IncrementCommentCount(posts, postId[c], 0 - totalDeleted[c])
  /\ pc' = [pc EXCEPT ![c] = "failed"]
  /\ error' = [error EXCEPT ![c] = "counter"]
  /\ UNCHANGED <<comments, nextId, created, deletes>>
  /\ UNCHANGED <<commentId, postId, allComments, descendants, pending, totalDeleted, pre>>
  /\ UNCHANGED descVars
  /\ UNCHANGED sideVars

CounterFail(c) ==
  /\ pc[c] = "counter"
  /\ pc' = [pc EXCEPT ![c] = "failed"]
  /\ error' = [error EXCEPT ![c] = "counter"]
  /\ UNCHANGED <<commentId, postId, allComments, descendants, pending, totalDeleted, pre>>
  /\ UNCHANGED storeVars
  /\ UNCHANGED descVars
  /\ UNCHANGED sideVars

\* handleDeleteConfirm after the await resolves: console.log(deletedCount)
LogDeleted(c) ==
  /\ pc[c] = "done"
  /\ pending[c] = {}
  /\ pc' = [pc EXCEPT ![c] = "idle"]
  /\ commentId' = [commentId EXCEPT ![c] = 0]
  /\ postId' = [postId EXCEPT ![c] = 0]
  /\ allComments' = [allComments EXCEPT ![c] = <<>>]
  /\ descendants' = [descendants EXCEPT ![c] = <<>>]
  /\ totalDeleted' = [totalDeleted EXCEPT ![c] = 0]
  /\ error' = [error EXCEPT ![c] = "none"]
  /\ pre' = [pre EXCEPT ![c] = NoPre]
  /\ UNCHANGED pending
  /\ UNCHANGED storeVars
  /\ UNCHANGED descVars
  /\ UNCHANGED sideVars

\* (mutant) the catch block calls deleteComment again
AlertFailedRetry(c) ==
  /\ pc[c] = "failed"
  /\ pending[c] = {}
  /\ pc' = [pc EXCEPT ![c] = "read"]
  /\ error' = [error EXCEPT ![c] = "none"]
  /\ UNCHANGED <<commentId, postId, allComments, descendants, pending, totalDeleted, pre>>
  /\ UNCHANGED storeVars
  /\ UNCHANGED descVars
  /\ UNCHANGED sideVars

\* handleDeleteConfirm's catch: console.error and alert('Failed to delete
\* comment. Please try again.'); nothing else
AlertFailed(c) ==
  /\ pc[c] = "failed"
  /\ pending[c] = {}
  /\ pc' = [pc EXCEPT ![c] = "idle"]
  /\ commentId' = [commentId EXCEPT ![c] = 0]
  /\ postId' = [postId EXCEPT ![c] = 0]
  /\ allComments' = [allComments EXCEPT ![c] = <<>>]
  /\ descendants' = [descendants EXCEPT ![c] = <<>>]
  /\ totalDeleted' = [totalDeleted EXCEPT ![c] = 0]
  /\ error' = [error EXCEPT ![c] = "none"]
  /\ pre' = [pre EXCEPT ![c] = NoPre]
  /\ UNCHANGED pending
  /\ UNCHANGED storeVars
  /\ UNCHANGED descVars
  /\ UNCHANGED sideVars

Next ==
  \E c \in Clients :
    \/ AddPost(c)
    \/ \E p \in PostIds, parent \in 0..MaxComments, ok \in BOOLEAN :
         CommentSubmit(c, p, parent, ok)
    \/ \E x \in created : DeleteConfirm(c, x, TRUE)
    \/ DeleteRead(c)
    \/ ReadFail(c)
    \/ \E d \in pending[c] : DeleteDescendant(c, d)
    \/ \E d \in pending[c] : DescendantFail(c, d)
    \/ AwaitDescendants(c)
    \/ DeleteTarget(c)
    \/ TargetFail(c)
    \/ UpdateCounter(c)
    \/ CounterFail(c)
    \/ LogDeleted(c)
    \/ AlertFailed(c)

Spec == Init /\ [][Next]_vars

\* No deleteComment call is in flight.
Quiescent == \A c \in Clients : pc[c] = "idle" /\ pending[c] = {}

\* Operations one at a time, every store operation succeeding.
NextOk ==
  \E c \in Clients :
    \/ Quiescent /\ AddPost(c)
    \/ Quiescent /\ \E p \in PostIds, parent \in 0..MaxComments :
                      CommentSubmit(c, p, parent, TRUE)
    \/ Quiescent /\ \E x \in created : DeleteConfirm(c, x, TRUE)
    \/ DeleteRead(c)
    \/ \E d \in pending[c] : DeleteDescendant(c, d)
    \/ AwaitDescendants(c)
    \/ DeleteTarget(c)
    \/ UpdateCounter(c)
    \/ LogDeleted(c)

SpecOk == Init /\ [][NextOk]_vars

\* Operations one at a time, any store operation may fail.
NextSeq ==
  \E c \in Clients :
    \/ Quiescent /\ AddPost(c)
    \/ Quiescent /\ \E p \in PostIds, parent \in 0..MaxComments, ok \in BOOLEAN :
                      CommentSubmit(c, p, parent, ok)
    \/ Quiescent /\ \E x \in created : DeleteConfirm(c, x, TRUE)
    \/ DeleteRead(c)
    \/ ReadFail(c)
    \/ \E d \in pending[c] : DeleteDescendant(c, d)
    \/ \E d \in pending[c] : DescendantFail(c, d)
    \/ AwaitDescendants(c)
    \/ DeleteTarget(c)
    \/ TargetFail(c)
    \/ UpdateCounter(c)
    \/ CounterFail(c)
    \/ LogDeleted(c)
    \/ AlertFailed(c)

SpecSeq == Init /\ [][NextSeq]_vars

\* ------------------------------------------------- the descendant resolver

\* Comment lists of one post: comment i replies to an earlier comment, to a
\* comment that is not in the list (DanglingId), or to nothing; the list is in
\* ascending (loadComments' createdAt order) or descending order.
DanglingId == MaxList + 1

ParentChoices(n) ==
  {f \in [1..n -> 0..DanglingId] : \A i \in 1..n : f[i] < i \/ f[i] = DanglingId}

ListOf(n, f, asc) ==
  [i \in 1..n |->
     LET k == IF asc THEN i ELSE n + 1 - i
     IN  [id |-> k, postId |-> 1, parentId |-> f[k], authorId |-> 1]]

InitDesc ==
  /\ StoreInit
  /\ RunInit
  /\ \E n \in 0..MaxList :
       \E f \in ParentChoices(n), asc \in BOOLEAN : listArg = ListOf(n, f, asc)
  /\ idArg \in 1..DanglingId
  /\ descOut = NotRun
  /\ SideIdle

\* a caller (deleteComment, replyCountMap, renderComment) applies the resolver
Resolve ==
  /\ ~descOut.ran
  /\ descOut' = [ran |-> TRUE, result |-> getAllCommentDescendants(idArg, listArg)]
  /\ UNCHANGED <<listArg, idArg>>
  /\ UNCHANGED storeVars
  /\ UNCHANGED runVars
  /\ UNCHANGED sideVars

NextDesc == Resolve

SpecDesc == InitDesc /\ [][NextDesc]_vars

\* The parent of the comment with this id in the list (NoParent when the list
\* has no such comment).
ParentIn(list, id) ==
  IF \E i \in 1..Len(list) : list[i].id = id
  THEN (CHOOSE d \in Range(list) : d.id = id).parentId
  ELSE NoParent

\* The chain of parentId links from id reaches x within k steps.
RECURSIVE ChainReaches(_, _, _, _)
ChainReaches(list, id, x, k) ==
  /\ k > 0
  /\ ParentIn(list, id) # NoParent
  /\ \/ ParentIn(list, id) = x
     \/ ChainReaches(list, ParentIn(list, id), x, k - 1)

Subtree(list, x) == {d \in Range(list) : ChainReaches(list, d.id, x, Len(list))}

\* C1: on a forest, getAllCommentDescendants(X, list) holds exactly the comments
\* whose parentId chain reaches X, each once, and never X itself.
C1_DescendantsExact ==
  descOut.ran =>
    /\ Range(descOut.result) = Subtree(listArg, idArg)
    /\ Len(descOut.result) = Cardinality(Subtree(listArg, idArg))
    /\ \A i \in 1..Len(descOut.result) : descOut.result[i].id # idArg

\* The thread A->B->C->D with B2 under A (ids 1, 2, 4, 5 and 3): the
\* descendants of A are the other four, those of B are C and D.
ExampleParents == [i \in 1..5 |-> CASE i = 1 -> NoParent [] i = 2 -> 1 [] i = 3 -> 1
                                    [] i = 4 -> 2 [] i = 5 -> 4]

C1_Witness ==
  /\ descOut.ran
  /\ listArg = ListOf(5, ExampleParents, TRUE)
  /\ idArg = 1
  /\ Ids(Range(descOut.result)) = {2, 3, 4, 5}
  /\ Len(descOut.result) = 4

\* ------------------------------------------------------- cascade delete

\* The descendants of comment x among the documents of store S.
StoreSubtree(S, x) == Subtree(SnapshotDocs(S), x)

DocsOf(S, p) == {d \in S : d.postId = p}

\* C2: a deleteComment(X, P) that ran alone and succeeded, X a comment of P
\* with k descendants in the store, removed exactly X and those k descendants,
\* decremented P's commentCount by k + 1 and returned k + 1.
C2_CascadeExact ==
  \A c \in Clients :
    (pc[c] = "done" /\ commentId[c] \in Ids(pre[c].comments)) =>
      LET sub == StoreSubtree(pre[c].comments, commentId[c])
          k == Cardinality(sub)
      IN  /\ comments = {d \in pre[c].comments : d.id # commentId[c] /\ d \notin sub}
          /\ posts[postId[c]].commentCount = pre[c].count - (k + 1)
          /\ totalDeleted[c] = k + 1

C2_Witness ==
  \E c \in Clients :
    /\ pc[c] = "done"
    /\ commentId[c] \in Ids(pre[c].comments)
    /\ Cardinality(StoreSubtree(pre[c].comments, commentId[c])) = 2
    /\ totalDeleted[c] = 3

\* C3 (as stated): within a run there is no state in which the target is
\* absent from the store while a descendant selected in that run is present.
C3_Original ==
  \A c \in Clients :
    (pc[c] \in {"descendants", "target", "counter"}
       /\ commentId[c] \notin Ids(comments))
      => Ids(Range(descendants[c])) \cap Ids(comments) = {}

\* C3 (amended): the target's delete is issued only after every descendant
\* delete of the run has completed: from the moment it is issued, no selected
\* descendant is in the store and none of their deletes is outstanding.
C3_TargetAfterDescendants ==
  \A c \in Clients :
    pc[c] \in {"target", "counter", "done"} =>
      /\ pending[c] = {}
      /\ Ids(Range(descendants[c])) \cap Ids(comments) = {}

C3_Witness ==
  \E c \in Clients :
    /\ pc[c] = "target"
    /\ Len(descendants[c]) = 2
    /\ commentId[c] \in Ids(comments)

\* C4: in every quiescent state reached by successful, non-overlapping
\* operations each post's commentCount is the number of its comment documents.
C4_CountMatchesDocs ==
  Quiescent =>
    \A p \in DOMAIN posts : posts[p].commentCount = Cardinality(CommentsOfPost(p))

\* C5: creating a top-level comment on a post increments that post's
\* commentCount by exactly 1 and changes no other post's commentCount.
C5_TopLevelIncrements ==
  [][ nextId' = nextId + 1 =>
        LET new == CHOOSE d \in comments' : d.id = nextId
        IN  new.parentId = NoParent =>
              \A p \in DOMAIN posts :
                posts'[p].commentCount =
                  posts[p].commentCount + (IF p = new.postId THEN 1 ELSE 0) ]_vars

\* C6: a second deleteComment on an id the first call already removed does
\* not throw and leaves the post's commentCount as the first call left it.
C6_RedeleteKeepsCount ==
  \A c \in Clients :
    (pc[c] \in {"done", "failed"} /\ commentId[c] \notin Ids(pre[c].comments)) =>
      /\ pc[c] = "done"
      /\ posts[postId[c]].commentCount = pre[c].count

\* Two calls in flight on overlapping subtrees of one post that read the same
\* snapshot: the target of c2 is a descendant of the target of c1.
Overlap(c1, c2) ==
  /\ c1 # c2
  /\ postId[c1] = postId[c2]
  /\ allComments[c1] = allComments[c2]
  /\ commentId[c2] \in Ids(Range(descendants[c1]))

Selected(c) == {commentId[c]} \cup Ids(Range(descendants[c]))

\* C7: of two overlapping deleteComment calls that read the same snapshot,
\* neither is stopped by the other's deletes (the delete of a document that is
\* already gone can still succeed), and once both have completed no comment of
\* either subtree is left in the store.
C7_OverlapSafe ==
  \A c1, c2 \in Clients :
    Overlap(c1, c2) =>
      /\ \A c \in {c1, c2} :
           /\ \A d \in pending[c] : ENABLED DeleteDescendant(c, d)
           /\ pc[c] = "target" => ENABLED DeleteTarget(c)
      /\ (pc[c1] = "done" /\ pc[c2] = "done") =>
           (Selected(c1) \cup Selected(c2)) \cap Ids(comments) = {}

C7_Witness ==
  \E c1, c2 \in Clients :
    /\ Overlap(c1, c2)
    /\ pc[c1] = "done"
    /\ pc[c2] = "done"
    /\ Len(descendants[c2]) = 1

\* C8: when two overlapping deleteComment calls that read the same snapshot are
\* the only calls made and both complete, commentCount has been decremented
\* once per call for the comments both selected, and is lower than the number
\* of comment documents left for the post.
C8_OverlapUndercount ==
  \A c1, c2 \in Clients :
    (Overlap(c1, c2) /\ pc[c1] = "done" /\ pc[c2] = "done" /\ deletes = 2) =>
      /\ posts[postId[c1]].commentCount =
           pre[c1].count - totalDeleted[c1] - totalDeleted[c2]
      /\ totalDeleted[c1] + totalDeleted[c2] =
           Cardinality(Selected(c1) \cup Selected(c2))
             + Cardinality(Selected(c1) \cap Selected(c2))
      /\ posts[postId[c1]].commentCount < Cardinality(CommentsOfPost(postId[c1]))

C8_Witness ==
  \E c1, c2 \in Clients :
    /\ Overlap(c1, c2)
    /\ pc[c1] = "done"
    /\ pc[c2] = "done"
    /\ deletes = 2
    /\ pre[c1].count = 2
    /\ CommentsOfPost(postId[c1]) = {}
    /\ posts[postId[c1]].commentCount = -1

\* The store operation a call is waiting for.
Awaited(c) ==
  CASE pc[c] = "read" -> "read"
    [] pc[c] = "descendants" -> "descendant"
    [] pc[c] = "target" -> "target"
    [] pc[c] = "counter" -> "counter"
    [] OTHER -> "none"

\* C9: a failing store operation makes deleteComment fail with that error; the
\* failed call issues nothing further, is not retried, restores nothing, and
\* the handler only notifies the user.
C9_FailStops ==
  [][ /\ \A c \in Clients :
           /\ (pc[c] # "failed" /\ pc'[c] = "failed") =>
                /\ error'[c] = Awaited(c)
                /\ comments' = comments
                /\ posts' = posts
           /\ pc[c] = "failed" =>
                /\ pc'[c] \in {"failed", "idle"}
                /\ pending'[c] \subseteq pending[c]
                /\ pc'[c] = "idle" => (comments' = comments /\ posts' = posts)
      /\ \A d \in created : d \notin comments => d \notin comments' ]_vars

C9_Witness ==
  \E c \in Clients :
    /\ pc[c] = "failed"
    /\ error[c] = "descendant"
    /\ pending[c] # {}
    /\ \E d \in Range(descendants[c]) : d \notin comments

\* C10 (as stated): after a failure of the target's delete or of the counter
\* update, the deleted comments stay deleted, commentCount keeps its value
\* and exceeds the number of comment documents left for the post.
C10_Original ==
  \A c \in Clients :
    (pc[c] = "failed" /\ error[c] \in {"target", "counter"}) =>
      /\ Ids(Range(descendants[c])) \cap Ids(comments) = {}
      /\ posts[postId[c]].commentCount = pre[c].count
      /\ posts[postId[c]].commentCount > Cardinality(CommentsOfPost(postId[c]))

\* C10 (amended): ... commentCount keeps its value while the documents the
\* call deleted are gone, so commentCount minus the number of documents left
\* has grown by the number of documents the call removed.
C10_StaleCount ==
  \A c \in Clients :
    (pc[c] = "failed" /\ error[c] \in {"target", "counter"}) =>
      LET removed == pre[c].comments \ comments
      IN  /\ Ids(Range(descendants[c])) \cap Ids(comments) = {}
          /\ Ids(removed) =
               (IF error[c] = "counter" THEN Selected(c) ELSE Ids(Range(descendants[c])))
                 \cap Ids(pre[c].comments)
          /\ comments = pre[c].comments \ removed
          /\ posts[postId[c]].commentCount = pre[c].count
          /\ posts[postId[c]].commentCount - Cardinality(CommentsOfPost(postId[c]))
               = pre[c].count - Cardinality(DocsOf(pre[c].comments, postId[c]))
                   + Cardinality(removed)

C10_Witness ==
  \E c \in Clients :
    /\ pc[c] = "failed"
    /\ error[c] = "counter"
    /\ Cardinality(pre[c].comments \ comments) = 3
    /\ posts[postId[c]].commentCount = 2
    /\ CommentsOfPost(postId[c]) = {}

\* ------------------------------------------- resolver: ids without replies

\* C11 (as stated): getAllCommentDescendants returns the empty array for a
\* comment without replies and for an id that does not occur in the list.
C11_Original ==
  (descOut.ran /\ (idArg \notin Ids(Range(listArg)) \/ DirectReplies(idArg, listArg) = <<>>))
    => descOut.result = <<>>

\* C11 (amended): the call returns, and returns the empty array, whenever no
\* comment of the list names the id as its parentId: a comment without
\* replies, or an absent id that nothing in the list refers to.
C11_EmptyWhenUnreferenced ==
  (descOut.ran /\ \A i \in 1..Len(listArg) : listArg[i].parentId # idArg)
    => descOut.result = <<>>

\* an id that is not in a non-empty list and that no comment replies to
C11_Witness ==
  /\ descOut.ran
  /\ Len(listArg) = 3
  /\ idArg = DanglingId
  /\ \A i \in 1..Len(listArg) : listArg[i].parentId # idArg
  /\ \E i \in 1..Len(listArg) : listArg[i].parentId # NoParent
  /\ descOut.result = <<>>

\* ------------------------------------------------------ the stored forest

\* Following parentId links from d inside S ends at a comment without parent
\* in at most k steps.
RECURSIVE RootWithin(_, _, _)
RootWithin(S, d, k) ==
  \/ d.parentId = NoParent
  \/ /\ k > 0
     /\ \E e \in S : e.id = d.parentId /\ RootWithin(S, e, k - 1)

\* C12: in every reachable store, the parentId chain of every comment of a
\* post ends at a comment without parent within N steps, N the number of
\* comments of the post, every link being a comment in the store.
C12_Forest ==
  \A p \in DOMAIN posts :
    \A d \in CommentsOfPost(p) :
      RootWithin(CommentsOfPost(p), d, Cardinality(CommentsOfPost(p)))

\* ------------------------------------------- the resolver's call stack

\* Lists for the termination check: any parentId at all, cycles and
\* self-replies included.
MaxWalk == 4

\* Call frames available to the recursion; a run that needs more ends with
\* RangeError (Maximum call stack size exceeded) instead of returning.
StackLimit == MaxWalk + 2

AnyParents(n) == [1..n -> 0..(n + 1)]

\* (mutant) the recursive call passes commentId again instead of reply.id
RECURSIVE DescendantsSameId(_, _, _)
DescendantsSameId(depth, cid, list) ==
  IF depth = 0
  THEN [returned |-> FALSE, result |-> <<>>]
  ELSE LET directReplies == DirectReplies(cid, list)
           inner == DescendantsSameId(depth - 1, cid, list)
       IN  IF directReplies = <<>>
           THEN [returned |-> TRUE, result |-> <<>>]
           ELSE [returned |-> inner.returned, result |-> directReplies \o inner.result]

\* getAllCommentDescendants run with depth call frames left: the same filter,
\* forEach and push, each recursive call taking one frame.
RECURSIVE DescendantsWithin(_, _, _)
DescendantsWithin(depth, cid, list) ==
  IF depth = 0
  THEN [returned |-> FALSE, result |-> <<>>]
  ELSE LET directReplies == DirectReplies(cid, list)
           nested[i \in 0..Len(directReplies)] ==
             IF i = 0 THEN [returned |-> TRUE, result |-> <<>>]
             ELSE LET r == DescendantsWithin(depth - 1, directReplies[i].id, list)
                  IN  [returned |-> nested[i - 1].returned /\ r.returned,
                       result |-> nested[i - 1].result \o r.result]
       IN  [returned |-> nested[Len(directReplies)].returned,
            result |-> directReplies \o nested[Len(directReplies)].result]

InitWalk ==
  /\ StoreInit
  /\ RunInit
  /\ \E n \in 0..MaxWalk :
       \E f \in AnyParents(n), asc \in BOOLEAN : listArg = ListOf(n, f, asc)
  /\ idArg \in 1..(MaxWalk + 1)
  /\ descOut = NotRun
  /\ walkOut = WalkNotRun
  /\ UserInit
  /\ NameIdle
  /\ TextIdle
  /\ ViewInit
  /\ ExtraIdle

Walk ==
  /\ ~walkOut.ran
  /\ walkOut' = [ran |-> TRUE,
                 returned |-> DescendantsWithin(StackLimit, idArg, listArg).returned,
                 result |-> DescendantsWithin(StackLimit, idArg, listArg).result]
  /\ UNCHANGED <<listArg, idArg, descOut>>
  /\ UNCHANGED storeVars
  /\ UNCHANGED runVars
  /\ UNCHANGED <<userVars, nameVars, textVars, viewVars, extraVars, authVars>>

NextWalk == Walk

SpecWalk == InitWalk /\ [][NextWalk]_vars

\* No comment of the list is reached again by following parentId from it.
Acyclic(list) ==
  \A i \in 1..Len(list) : ~ChainReaches(list, list[i].id, list[i].id, Len(list))

\* C13: on every list whose parentId relation is acyclic, at any depth the
\* list allows, the call of getAllCommentDescendants returns (it does not run
\* out of call frames), and it returns the descendants.
C13_Terminates ==
  (walkOut.ran /\ Acyclic(listArg)) =>
    /\ walkOut.returned
    /\ walkOut.result = getAllCommentDescendants(idArg, listArg)

\* the deepest thread of the bound: a chain 1 <- 2 <- 3 <- 4
C13_Witness ==
  /\ walkOut.ran
  /\ Len(listArg) = MaxWalk
  /\ \A i \in 1..Len(listArg) : listArg[i].parentId = listArg[i].id - 1
  /\ idArg = 1
  /\ walkOut.returned
  /\ Len(walkOut.result) = MaxWalk - 1

\* ------------------------------------------------------------ registration

MaxUsers == 3
MaxName == 3

outsideUsers == <<commentVars, nameVars, textVars, viewVars, extraVars>>
outsideNames == <<commentVars, userVars, textVars, viewVars, extraVars, authVars>>

\* Usernames requested in the registration runs.
JDoe99 == <<"J", "D", "o", "e", "_", "9", "9">>
SignupNames == {JDoe99, toLowerCase(JDoe99), <<"j", "d">>, <<"j", "-", "d", "o", "e">>}

\* (mutant) the form keeps the typed value as it is
AsTyped(str) == str

\* handleUsernameChange: const lowerValue = value.toLowerCase()
LowerValue(str) == toLowerCase(str)

\* AuthModal.handleUsernameChange(value): the field keeps the value in lower
\* case; an empty or badly formed one is not checked, otherwise the debounce
\* timer is armed with lowerValue (replacing the timer armed before). A check
\* that a timer has already started is not affected.
UsernameChange(c, typed) ==
  /\ form' = [form EXCEPT ![c] =
       LET lowerValue == LowerValue(typed)
       IN  [username |-> lowerValue,
            typed |-> typed,
            error |-> IF trim(lowerValue) = <<>> \/ validateUsername(lowerValue).isValid
                      THEN "" ELSE validateUsername(lowerValue).error,
            timer |-> trim(lowerValue) # <<>> /\ validateUsername(lowerValue).isValid,
            report |-> "none",
            asked |-> form[c].asked]]
  /\ UNCHANGED <<users, nextUid, signup>>
  /\ UNCHANGED outsideUsers
  /\ UNCHANGED authVars

\* the timer fires, 500 ms after the last change: checkUsernameExists(lowerValue)
\* is issued with the value the timer was armed with
TimerFired(c) ==
  /\ form[c].timer
  /\ form[c].asked = <<>>
  /\ form' = [form EXCEPT ![c].timer = FALSE, ![c].asked = <<form[c].username>>]
  /\ UNCHANGED <<users, nextUid, signup>>
  /\ UNCHANGED outsideUsers
  /\ UNCHANGED authVars

\* checkUsernameExists(lowerValue) resolves: the timer's callback sets
\* errors.username and usernameAvailable from the answer
UsernameChecked(c) ==
  /\ form[c].asked # <<>>
  /\ form' = [form EXCEPT ![c] =
       IF UsernameExists(users, form[c].asked[1])
       THEN [@ EXCEPT !.asked = <<>>, !.report = "taken",
                      !.error = "Username is already taken"]
       ELSE [@ EXCEPT !.asked = <<>>, !.report = "available", !.error = ""]]
  /\ UNCHANGED <<users, nextUid, signup>>
  /\ UNCHANGED outsideUsers
  /\ UNCHANGED authVars

\* checkUsernameExists throws
UsernameCheckFailed(c) ==
  /\ form[c].asked # <<>>
  /\ form' = [form EXCEPT ![c].asked = <<>>, ![c].report = "failed",
                          ![c].error = "Failed to check username availability"]
  /\ UNCHANGED <<users, nextUid, signup>>
  /\ UNCHANGED outsideUsers
  /\ UNCHANGED authVars

\* createUser(uid, email, firstName, lastName, username), up to its first
\* await: validateUsername, then throw or call checkUsernameExists. The uid is
\* the one createUserWithEmailAndPassword returned for this registration,
\* which through the modal also signed the session in as that user.
CreateUserCall(c, name, viaForm) ==
  /\ signup[c].pc = "idle"
  /\ nextUid <= MaxUsers
  /\ nextUid' = nextUid + 1
  /\ signup' = [signup EXCEPT ![c] =
       IF validateUsername(name).isValid
       THEN [pc |-> "check", username |-> name, uid |-> nextUid, error |-> "",
             passed |-> FALSE, fromForm |-> viaForm]
       ELSE [pc |-> "rejected", username |-> name, uid |-> nextUid,
             error |-> validateUsername(name).error, passed |-> FALSE,
             fromForm |-> viaForm]]
  /\ authUid' = IF viaForm THEN [authUid EXCEPT ![c] = nextUid] ELSE authUid
  /\ UNCHANGED <<users, form>>
  /\ UNCHANGED outsideUsers
  /\ UNCHANGED <<ctx, listener>>

\* AuthModal.handleSubmit on the signup tab: validateForm lets a non-empty
\* username without a pending error through, and createUser gets the field's
\* state.
SignupSubmit(c) ==
  /\ trim(form[c].username) # <<>>
  /\ form[c].error = ""
  /\ CreateUserCall(c, form[c].username, TRUE)

\* await checkUsernameExists(username) resolves
CheckUsername(c) ==
  /\ signup[c].pc = "check"
  /\ signup' = [signup EXCEPT ![c] =
       IF UsernameExists(users, signup[c].username)
       THEN [@ EXCEPT !.pc = "rejected", !.error = "Username is already taken"]
       ELSE [@ EXCEPT !.pc = "write", !.passed = TRUE]]
  /\ UNCHANGED <<users, nextUid, form>>
  /\ UNCHANGED outsideUsers
  /\ UNCHANGED authVars

\* getDocs rejects: checkUsernameExists throws, createUser lets it through
CheckFail(c) ==
  /\ signup[c].pc = "check"
  /\ signup' = [signup EXCEPT ![c].pc = "rejected",
                              ![c].error = "Failed to check username availability"]
  /\ UNCHANGED <<users, nextUid, form>>
  /\ UNCHANGED outsideUsers
  /\ UNCHANGED authVars

\* (mutant) the write is refused when the username has been stored meanwhile
WriteUserIfFree(c) ==
  /\ signup[c].pc = "write"
  /\ IF UsernameExists(users, trim(toLowerCase(signup[c].username)))
     THEN /\ signup' = [signup EXCEPT ![c].pc = "rejected",
                                      ![c].error = "Username is already taken"]
          /\ UNCHANGED users
     ELSE /\ users' = users \cup {UserData(signup[c].uid, signup[c].username)}
          /\ signup' = [signup EXCEPT ![c].pc = "done"]
  /\ UNCHANGED <<nextUid, form>>
  /\ UNCHANGED outsideUsers
  /\ UNCHANGED authVars

\* await setDoc(doc(db, 'users', uid), userData) resolves
WriteUser(c) ==
  /\ signup[c].pc = "write"
  /\ users' = {u \in users : u.id # signup[c].uid}
                \cup {UserData(signup[c].uid, signup[c].username)}
  /\ signup' = [signup EXCEPT ![c].pc = "done"]
  /\ UNCHANGED <<nextUid, form>>
  /\ UNCHANGED outsideUsers
  /\ UNCHANGED authVars

\* setDoc rejects
WriteFail(c) ==
  /\ signup[c].pc = "write"
  /\ signup' = [signup EXCEPT ![c].pc = "rejected", ![c].error = "setDoc failed"]
  /\ UNCHANGED <<users, nextUid, form>>
  /\ UNCHANGED outsideUsers
  /\ UNCHANGED authVars

\* handleSubmit: setUser({ id: user.uid, ..., username: username.toLowerCase().trim() })
\* through AuthContext.manualSetUser
manualSetUser(current, uid, username) ==
  [id |-> uid, username |-> trim(toLowerCase(username))]

\* handleSubmit after createUser settled: on success setUser(...) and the form
\* is reset (its timer cleared); on failure setErrors({ submit })
SignupSettled(c) ==
  /\ signup[c].pc \in {"done", "rejected"}
  /\ signup' = [signup EXCEPT ![c] = NoSignup]
  /\ form' = [form EXCEPT ![c] =
       IF signup[c].fromForm /\ signup[c].pc = "done"
       THEN [EmptyForm EXCEPT !.asked = form[c].asked] ELSE @]
  /\ ctx' = [ctx EXCEPT ![c] =
       IF signup[c].fromForm /\ signup[c].pc = "done"
       THEN manualSetUser(@, signup[c].uid, signup[c].username) ELSE @]
  /\ UNCHANGED <<users, nextUid>>
  /\ UNCHANGED outsideUsers
  /\ UNCHANGED <<authUid, listener>>

NoSignupRunning == \A c \in Clients : signup[c].pc = "idle"

\* createUser calls in any interleaving, whoever makes them
NextUsers ==
  \E c \in Clients :
    \/ \E name \in SignupNames : CreateUserCall(c, name, FALSE)
    \/ CheckUsername(c)
    \/ CheckFail(c)
    \/ WriteUser(c)
    \/ WriteFail(c)
    \/ SignupSettled(c)

SpecUsers == Init /\ [][NextUsers]_vars

\* The sessions that use the signup form in the registration runs.
Registrants == {1, 2}

\* registrations through the signup form, one createUser call at a time
NextSignup ==
  \E c \in Registrants :
    \/ \E typed \in SignupNames : UsernameChange(c, typed)
    \/ TimerFired(c)
    \/ UsernameChecked(c)
    \/ UsernameCheckFailed(c)
    \/ NoSignupRunning /\ SignupSubmit(c)
    \/ CheckUsername(c)
    \/ CheckFail(c)
    \/ WriteUser(c)
    \/ WriteFail(c)
    \/ SignupSettled(c)

SpecSignup == Init /\ [][NextSignup]_vars

\* createUser calls one at a time, whoever makes them
NextUsersSeq ==
  \E c \in Clients :
    \/ NoSignupRunning /\ \E name \in SignupNames : CreateUserCall(c, name, FALSE)
    \/ CheckUsername(c)
    \/ CheckFail(c)
    \/ WriteUser(c)
    \/ WriteFail(c)
    \/ SignupSettled(c)

SpecUsersSeq == Init /\ [][NextUsersSeq]_vars

\* --------------------------------------------------- username uniqueness

SameIgnoringCase(a, b) == toLowerCase(a) = toLowerCase(b)

\* C14: with createUser calls made one at a time, no two user documents hold
\* usernames that are equal ignoring case, and a call whose requested username
\* equals a stored one up to case is not let through to the write.
C14_UniqueIgnoringCase ==
  /\ \A u, v \in users : u.id # v.id => ~SameIgnoringCase(u.username, v.username)
  /\ \A c \in Clients :
       signup[c].pc = "write" =>
         ~\E u \in users : SameIgnoringCase(u.username, signup[c].username)

C16_RaceBothSucceed ==
  \A c1, c2 \in Clients :
    ( /\ c1 # c2
      /\ signup[c1].passed /\ signup[c2].passed
      /\ signup[c1].username = signup[c2].username ) =>
      /\ \A c \in {c1, c2} :
           \/ signup[c].pc = "write" /\ ENABLED WriteUser(c)
           \/ signup[c].pc = "done"
           \/ signup[c].pc = "rejected" /\ signup[c].error = "setDoc failed"
      /\ (signup[c1].pc = "done" /\ signup[c2].pc = "done") =>
           /\ signup[c1].uid # signup[c2].uid
           /\ UserData(signup[c1].uid, signup[c1].username) \in users
           /\ UserData(signup[c2].uid, signup[c2].username) \in users

C16_Witness ==
  \E c1, c2 \in Clients :
    /\ c1 # c2
    /\ signup[c1].pc = "done" /\ signup[c2].pc = "done"
    /\ signup[c1].username = toLowerCase(JDoe99)
    /\ signup[c2].username = toLowerCase(JDoe99)
    /\ Cardinality({u \in users : u.username = toLowerCase(JDoe99)}) = 2

\* ------------------------------------------------- username validation

\* Usernames for the validation runs: every string of up to MaxName characters
\* over letters of both cases, a digit, the underscore, a dash and a blank,
\* and each of them padded to the lengths around the upper limit.
Alphabet == {"a", "Z", "7", "_", "-", " "}

ShortNames == UNION {[1..n -> Alphabet] : n \in 0..MaxName}

Pad(str, n) == str \o [i \in 1..(n - Len(str)) |-> "a"]

Names ==
  ShortNames \cup
    {Pad(str, n) : str \in ShortNames,
                   n \in (MaxUsernameLength - 1)..(MaxUsernameLength + 2)}

InitName ==
  /\ StoreInit
  /\ RunInit
  /\ DescIdle
  /\ WalkIdle
  /\ UserInit
  /\ nameArg \in Names
  /\ nameOut = NameNotRun
  /\ TextIdle
  /\ ViewInit
  /\ ExtraIdle

\* a caller (createUser, handleUsernameChange) applies validateUsername
Validate ==
  /\ ~nameOut.ran
  /\ nameOut' = [ran |-> TRUE,
                 isValid |-> validateUsername(nameArg).isValid,
                 error |-> validateUsername(nameArg).error]
  /\ UNCHANGED nameArg
  /\ UNCHANGED outsideNames

\* validateUsername on its own, and one createUser call with the same username
NextName ==
  \/ Validate
  \/ \E c \in Clients :
       \/ NoSignupRunning /\ nextUid = 1 /\ CreateUserCall(c, nameArg, FALSE)
       \/ CheckUsername(c)
       \/ CheckFail(c)
       \/ WriteUser(c)
       \/ WriteFail(c)
       \/ SignupSettled(c)

SpecName == InitName /\ [][NextName]_vars

AsciiLetter(ch) ==
  \E i \in 1..26 : ch = LowerLetters[i] \/ ch = UpperLetters[i]

Accepted(str) ==
  /\ Len(str) >= 3
  /\ Len(str) <= 20
  /\ \A i \in 1..Len(str) : AsciiLetter(str[i]) \/ str[i] \in Digits \/ str[i] = "_"

\* C17: validateUsername accepts a string exactly when it has 3 to 20
\* characters, all of them ASCII letters, digits or underscores; createUser
\* called with any other string throws before its first store operation, and
\* stores an accepted username in lower case.
C17_ValidationExact ==
  /\ nameOut.ran => (nameOut.isValid <=> Accepted(nameArg))
  /\ \A c \in Clients :
       signup[c].pc # "idle" =>
         /\ ~Accepted(signup[c].username) =>
              /\ signup[c].pc = "rejected"
              /\ signup[c].error = validateUsername(signup[c].username).error
              /\ ~signup[c].passed
              /\ users = {}
         /\ signup[c].pc = "done" =>
              \E u \in users :
                /\ u.id = signup[c].uid
                /\ Len(u.username) = Len(signup[c].username)
                /\ \A i \in 1..Len(u.username) :
                     /\ ~\E k \in 1..26 : u.username[i] = UpperLetters[k]
                     /\ \/ u.username[i] = signup[c].username[i]
                        \/ \E k \in 1..26 : /\ signup[c].username[i] = UpperLetters[k]
                                            /\ u.username[i] = LowerLetters[k]

\* a username of exactly 20 characters with a capital letter is accepted
\* and stored in lower case
C17_Witness ==
  /\ nameArg = Pad(<<"Z", "7", "_">>, 20)
  /\ nameOut.ran /\ nameOut.isValid
  /\ \E c \in Clients :
       /\ signup[c].pc = "done"
       /\ signup[c].username = nameArg
       /\ [id |-> signup[c].uid, username |-> Pad(<<"z", "7", "_">>, 20)] \in users

\* ------------------------------------------------------------- mentions

MaxText == 5

outsideText == <<commentVars, userVars, nameVars, viewVars, extraVars, authVars>>

\* The last index of the run of word characters that starts at index i.
WordRunEnd(str, i) ==
  CHOOSE j \in i..Len(str) :
    /\ \A k \in i..j : WordChar(str[k])
    /\ j = Len(str) \/ ~WordChar(str[j + 1])

\* String.prototype.split on /@\w+/g, scanning from index i with lit the text
\* collected since the last match; with a capturing group around the pattern
\* (capture) each match is spliced into the result as well.
RECURSIVE SplitFrom(_, _, _, _)
SplitFrom(str, i, lit, capture) ==
  IF i > Len(str) THEN <<lit>>
  ELSE IF str[i] = "@" /\ i < Len(str) /\ WordChar(str[i + 1])
    THEN LET j == WordRunEnd(str, i + 1)
         IN  (IF capture THEN <<lit, SubSeq(str, i, j)>> ELSE <<lit>>)
               \o SplitFrom(str, j + 1, <<>>, capture)
    ELSE SplitFrom(str, i + 1, Append(lit, str[i]), capture)

\* (mutant) the pattern has no capturing group: content.split(/@\w+/g)
SplitWithoutCapture(content) == SplitFrom(content, 1, <<>>, FALSE)

\* const parts = content.split(/(@\w+)/g)
SplitOnMentions(content) == SplitFrom(content, 1, <<>>, TRUE)

\* part.startsWith('@')
StartsWithAt(part) == Len(part) > 0 /\ part[1] = "@"

\* parts.map((part, index) => ...): a button that navigates to
\* `/profile/${part.slice(1)}` for a part that starts with '@', the part
\* itself as text otherwise
renderContentWithMentions(content) ==
  LET parts == SplitOnMentions(content)
  IN  [index \in 1..Len(parts) |->
         IF StartsWithAt(parts[index])
         THEN [tag |-> "button", to |-> <<"/profile/">> \o Tail(parts[index]),
               text |-> parts[index]]
         ELSE [tag |-> "text", to |-> <<>>, text |-> parts[index]]]

ExampleContent ==
  <<"g", "r", "e", "a", "t", " ", "s", "h", "o", "t", " ", "@", "j", "d", "o", "e",
    " ", "n", "i", "c", "e", "!">>

TextAlphabet == {"@", "j", "_", " "}

Texts == UNION {[1..n -> TextAlphabet] : n \in 0..MaxText} \cup {ExampleContent}

InitText ==
  /\ StoreInit
  /\ RunInit
  /\ DescIdle
  /\ WalkIdle
  /\ UserInit
  /\ NameIdle
  /\ ViewInit
  /\ ExtraIdle
  /\ textArg \in Texts
  /\ textOut = TextNotRun

\* renderComment renders a comment's content
Render ==
  /\ ~textOut.ran
  /\ textOut' = [ran |-> TRUE,
                 parts |-> SplitOnMentions(textArg),
                 rendered |-> renderContentWithMentions(textArg)]
  /\ UNCHANGED textArg
  /\ UNCHANGED outsideText

NextText == Render

SpecText == InitText /\ [][NextText]_vars

RECURSIVE Concat(_)
Concat(parts) == IF parts = <<>> THEN <<>> ELSE Head(parts) \o Concat(Tail(parts))

\* '@' followed by one or more word characters, and nothing else
IsMention(part) ==
  /\ Len(part) >= 2
  /\ part[1] = "@"
  /\ \A k \in 2..Len(part) : WordChar(part[k])

ContainsMention(part) ==
  \E k \in 1..(Len(part) - 1) : part[k] = "@" /\ WordChar(part[k + 1])

\* C18: the parts alternate literal (odd positions, holding no mention) and
\* mention (even positions), their concatenation is the content, the example
\* yields "great shot ", "@jdoe", " nice!", and content without '@' yields
\* itself as the only part.
C18_TokenizeRoundTrip ==
  textOut.ran =>
    /\ Concat(textOut.parts) = textArg
    /\ Len(textOut.parts) % 2 = 1
    /\ \A i \in 1..Len(textOut.parts) :
         IF i % 2 = 0 THEN IsMention(textOut.parts[i])
         ELSE ~ContainsMention(textOut.parts[i])
    /\ textArg = ExampleContent =>
         textOut.parts = <<SubSeq(ExampleContent, 1, 11), <<"@", "j", "d", "o", "e">>,
                           SubSeq(ExampleContent, 17, 22)>>
    /\ (\A k \in 1..Len(textArg) : textArg[k] # "@") => textOut.parts = <<textArg>>

C18_Witness ==
  /\ textOut.ran
  /\ textArg = ExampleContent
  /\ Len(textOut.parts) = 3
  /\ textOut.parts[2] = <<"@", "j", "d", "o", "e">>

\* C19: a part is rendered as a profile link exactly when it is a mention
\* token, the link going to /profile/ followed by the characters after '@';
\* every other part is rendered as plain text.
C19_OnlyMentionsLinked ==
  textOut.ran =>
    \A i \in 1..Len(textOut.parts) :
      /\ textOut.rendered[i].tag = "button" <=> IsMention(textOut.parts[i])
      /\ textOut.rendered[i].tag = "button" =>
           textOut.rendered[i].to = <<"/profile/">> \o Tail(textOut.parts[i])
      /\ textOut.rendered[i].tag # "button" =>
           /\ textOut.rendered[i].tag = "text"
           /\ textOut.rendered[i].text = textOut.parts[i]

\* ------------------------------------------------------------ live views

\* The session that opens and closes the comments page in the live-view runs;
\* every session creates and deletes comments.
Viewers == {1}

outsideView == <<commentVars, userVars, nameVars, textVars, extraVars, authVars>>

\* convertServiceCommentToComment: the author fields move into author
convertServiceCommentToComment(serviceComment) ==
  [id |-> serviceComment.id, postId |-> serviceComment.postId,
   parentId |-> serviceComment.parentId, author |-> [id |-> serviceComment.authorId]]

\* loadComments / the onSnapshot callback: the documents of the comments
\* collection ordered by createdAt (the order in which they were created),
\* each converted for the client
ClientList(S) ==
  [i \in 1..Len(SnapshotDocs(S)) |-> convertServiceCommentToComment(SnapshotDocs(S)[i])]

\* the effect runs: initializeData starts loadComments
Mount(c) ==
  /\ view[c].sub = "none"
  /\ view' = [view EXCEPT ![c].sub = "loading"]
  /\ UNCHANGED outsideView

\* loadComments resolves: setComments(initialComments.map(...)), then
\* subscribeToCommentsUpdates registers the listener and its unsubscribe
\* function is stored in the effect's local variable. When the cleanup has
\* already run, nothing will call it: the listener is left behind.
LoadDone(c) ==
  /\ view[c].sub \in {"loading", "abandoned"}
  /\ view' = [view EXCEPT ![c] =
       IF view[c].sub = "loading"
       THEN [sub |-> "active", list |-> ClientList(comments)]
       ELSE [sub |-> "leaked", list |-> <<>>]]
  /\ UNCHANGED outsideView

\* loadComments rejects: the catch reports it and no listener is registered
LoadFailed(c) ==
  /\ view[c].sub \in {"loading", "abandoned"}
  /\ view' = [view EXCEPT ![c].sub = IF @ = "loading" THEN "failed" ELSE "none"]
  /\ UNCHANGED outsideView

\* (mutant) the callback adds the snapshot's comments the client did not have
\* and keeps the ones it had
SnapshotMerged(c) ==
  /\ view[c].sub = "active"
  /\ view[c].list # ClientList(comments)
  /\ view' = [view EXCEPT ![c].list =
       @ \o SelectSeq(ClientList(comments), LAMBDA d : d \notin Range(view[c].list))]
  /\ UNCHANGED outsideView

\* the listener's callback runs with a snapshot that differs from what the
\* client holds: setComments(updatedComments.map(...))
SnapshotDelivered(c) ==
  /\ view[c].sub = "active"
  /\ view[c].list # ClientList(comments)
  /\ view' = [view EXCEPT ![c].list = ClientList(comments)]
  /\ UNCHANGED outsideView

\* the listener's error callback runs (console.error); the listener is over
ListenerError(c) ==
  /\ view[c].sub \in {"active", "leaked"}
  /\ view' = [view EXCEPT ![c].sub = IF @ = "active" THEN "closed" ELSE "none"]
  /\ UNCHANGED outsideView

\* the effect's cleanup: if (commentsUnsubscribe) commentsUnsubscribe(). While
\* the initial load is in flight the variable is still undefined and the
\* cleanup stops nothing.
Unmount(c) ==
  /\ view[c].sub \in {"loading", "active", "closed", "failed"}
  /\ view' = [view EXCEPT ![c] =
       IF view[c].sub = "loading" THEN [sub |-> "abandoned", list |-> <<>>] ELSE NoView]
  /\ UNCHANGED outsideView

\* comment creation and cascade delete one at a time, sessions mounting and
\* unmounting the page at any moment
NextLive ==
  \E c \in Clients :
    \/ Quiescent /\ \E p \in PostIds, parent \in 0..MaxComments :
                      CommentSubmit(c, p, parent, TRUE)
    \/ Quiescent /\ \E x \in created : DeleteConfirm(c, x, FALSE)
    \/ DeleteRead(c)
    \/ \E d \in pending[c] : DeleteDescendant(c, d)
    \/ AwaitDescendants(c)
    \/ DeleteTarget(c)
    \/ UpdateCounter(c)
    \/ LogDeleted(c)
    \/ c \in Viewers /\ Mount(c)
    \/ LoadDone(c)
    \/ LoadFailed(c)
    \/ SnapshotDelivered(c)
    \/ ListenerError(c)
    \/ Unmount(c)

\* The SDK delivers to a registered listener the snapshot that follows a
\* change; nothing else is assumed to make progress.
SpecLive ==
  /\ Init
  /\ [][NextLive]_vars
  /\ \A c \in Viewers : WF_vars(SnapshotDelivered(c))

\* C20: a session whose comments listener is active comes to hold, with no
\* action of its user, a client list equal to the store's comments collection
\* (or its listener has ended).
C20_ViewsCatchUp ==
  \A c \in Viewers :
    [](view[c].sub = "active" =>
         <>(view[c].sub # "active" \/ view[c].list = ClientList(comments)))

\* a viewer has caught up after a cascade delete removed a comment that
\* another user had written
C20_Witness ==
  \E c \in Clients :
    /\ view[c].sub = "active"
    /\ comments # SampleComments
    /\ \E d \in created : d \notin comments /\ d.authorId # c
    /\ view[c].list = ClientList(comments)
    /\ Quiescent

\* ------------------------------------------------- who starts a cascade

C22_DescendantFailKeepsTarget ==
  \A c \in Clients :
    error[c] = "descendant" =>
      /\ pc[c] = "failed"
      /\ totalDeleted[c] = 0
      /\ \A x \in pre[c].comments : x.id = commentId[c] => x \in comments
      /\ comments \subseteq pre[c].comments
      /\ pre[c].comments \ comments \subseteq Range(descendants[c])
      /\ posts[postId[c]].commentCount = pre[c].count

C22_Witness ==
  \E c \in Clients :
    /\ pc[c] = "failed"
    /\ error[c] = "descendant"
    /\ pending[c] = {}
    /\ \E x \in comments : x.id = commentId[c]
    /\ \E d \in Range(descendants[c]) : d \notin comments
    /\ \E d \in Range(descendants[c]) : d \in comments

\* ------------------------------------------------- rendering a thread

MaxPage == 4
MaxTime == 2

outsidePage == <<storeVars, runVars, walkVars, userVars, nameVars, textVars, viewVars, authVars, replyVars>>

\* comments.filter(comment => comment.postId === postId)
PostComments(list, p) == SelectSeq(list, LAMBDA c : c.postId = p)

\* replyCountMap: comment id -> getAllCommentDescendants(id, ...).length, for
\* every comment of the post; get(id) || 0 for any other id
ReplyCount(postComments, id) ==
  IF \E i \in 1..Len(postComments) : postComments[i].id = id
  THEN Len(getAllCommentDescendants(id, postComments))
  ELSE 0

\* (mutant) the descendants are rendered in the order the resolver returns them
Unsorted(list) == list

\* allDescendants.sort((a, b) => a.createdAt.getTime() - b.createdAt.getTime()):
\* a stable sort, equal times keep their order
RECURSIVE SortByCreatedAt(_)
SortByCreatedAt(list) ==
  IF list = <<>> THEN <<>>
  ELSE LET rest == SortByCreatedAt(SubSeq(list, 1, Len(list) - 1))
           last == list[Len(list)]
           keep == Cardinality({i \in 1..Len(rest) : rest[i].createdAt <= last.createdAt})
       IN SubSeq(rest, 1, keep) \o <<last>> \o SubSeq(rest, keep + 1, Len(rest))

\* renderComment(comment, isReply, flatMode): the comment's own block (with the
\* 'View n replies' toggle when !isReply && hasReplies) and, when !flatMode and
\* the comment is expanded and has replies, one block per sorted descendant,
\* each rendered with isReply = true and flatMode = true
RECURSIVE renderComment(_, _, _, _, _)
renderComment(comment, isReply, flatMode, postComments, expandedReplies) ==
  LET sortedDescendants ==
        SortByCreatedAt(getAllCommentDescendants(comment.id, postComments))
      totalReplyCount == ReplyCount(postComments, comment.id)
      hasReplies == totalReplyCount > 0
      areRepliesExpanded == comment.id \in expandedReplies
      found == SelectSeq(sortedDescendants,
                 LAMBDA d : \E i \in 1..Len(postComments) : postComments[i].id = d.id)
  IN [id |-> comment.id,
      isReply |-> isReply,
      toggle |-> ~isReply /\ hasReplies,
      count |-> totalReplyCount,
      replies |-> IF ~flatMode /\ areRepliesExpanded /\ hasReplies
                  THEN [i \in 1..Len(found) |->
                          renderComment(found[i], TRUE, TRUE, postComments, expandedReplies)]
                  ELSE <<>>]

\* postComments.filter(comment => comment.parentId === null)
TopLevelComments(postComments) == SelectSeq(postComments, LAMBDA c : c.parentId = NoParent)

\* The client's comment lists: comment i of post 1, in createdAt order as the
\* query delivers them, each replying to nothing or to another comment of the
\* list, the parent links forming a forest.
PageList(n, f, t) ==
  [i \in 1..n |-> [id |-> i, postId |-> 1, parentId |-> f[i], createdAt |-> t[i]]]

PageLists ==
  UNION {{PageList(n, f, t) :
            f \in {g \in [1..n -> 0..n] :
                     /\ \A i \in 1..n : g[i] # i
                     /\ Acyclic(PageList(n, g, [i \in 1..n |-> 1]))},
            t \in {u \in [1..n -> 1..MaxTime] : \A i \in 1..(n - 1) : u[i] <= u[i + 1]}}
           : n \in 1..MaxPage}

\* idArg is the top-level comment whose replies the user has expanded.
InitPage ==
  /\ StoreInit
  /\ RunInit
  /\ listArg \in PageLists
  /\ idArg \in {d.id : d \in {e \in Range(listArg) : e.parentId = NoParent}}
  /\ descOut = NotRun
  /\ walkOut = WalkNotRun
  /\ UserInit
  /\ NameIdle
  /\ TextIdle
  /\ ViewInit
  /\ ExtraIdle

\* One render of CommentSection for post 1 with expandedReplies = {idArg}; the
\* delete confirmation's replyCount for each comment it can be opened on.
RenderSection ==
  /\ ~pageOut.ran
  /\ LET postComments == PostComments(listArg, 1)
         top == TopLevelComments(postComments)
     IN pageOut' = [ran |-> TRUE,
                    blocks |-> [i \in 1..Len(top) |->
                                  renderComment(top[i], FALSE, FALSE, postComments, {idArg})],
                    modalCount |-> [i \in 1..Len(postComments) |->
                                      ReplyCount(postComments, postComments[i].id)]]
  /\ UNCHANGED descVars
  /\ UNCHANGED outsidePage

NextPage == RenderSection

SpecPage == InitPage /\ [][NextPage]_vars

CreatedAtOf(list, id) == (CHOOSE d \in Range(list) : d.id = id).createdAt

\* C23: on a forest, the expanded top-level comment shows each of its
\* descendants exactly once, in ascending createdAt order, each as a flat
\* reply without replies of its own and without toggle; the count on its
\* toggle, and the count the delete confirmation shows for any comment, is the
\* number of descendants getAllCommentDescendants returns for it.
C23_FlatThread ==
  pageOut.ran =>
    /\ \A b \in Range(pageOut.blocks) :
         b.id = idArg =>
           /\ {r.id : r \in Range(b.replies)} = Ids(Subtree(listArg, idArg))
           /\ Len(b.replies) = Cardinality(Subtree(listArg, idArg))
           /\ \A i, j \in 1..Len(b.replies) :
                i < j => CreatedAtOf(listArg, b.replies[i].id)
                           <= CreatedAtOf(listArg, b.replies[j].id)
           /\ \A r \in Range(b.replies) :
                r.isReply /\ ~r.toggle /\ r.replies = <<>>
           /\ b.toggle = (Subtree(listArg, idArg) # {})
           /\ b.count = Len(getAllCommentDescendants(idArg, listArg))
    /\ \E b \in Range(pageOut.blocks) : b.id = idArg
    /\ \A i \in 1..Len(listArg) :
         pageOut.modalCount[i] = Len(getAllCommentDescendants(i, listArg))

\* The thread 1 <- 2 <- 3 with 4 under 1: the resolver returns 2, 4, 3 and
\* the page shows 2, 3, 4.
C23_Witness ==
  /\ pageOut.ran
  /\ Len(listArg) = 4
  /\ idArg = 1
  /\ LET d == getAllCommentDescendants(1, listArg)
     IN Len(d) = 3 /\ [i \in 1..3 |-> d[i].id] = <<2, 4, 3>>
  /\ \E b \in Range(pageOut.blocks) :
       b.id = 1 /\ [i \in 1..Len(b.replies) |-> b.replies[i].id] = <<2, 3, 4>>

\* ------------------------------------------------------ what a step leaves alone

\* C24: a comment document leaves the store only as the target of a running
\* deleteComment call or as a descendant of its target in the list the call
\* fetched; a stored comment document never differs from the document written
\* under its id; a post document changes only in its commentCount and only by
\* the counter update of a call for that post.
C24_Frame ==
  [][ /\ \A e \in comments :
           e \notin comments' =>
             \E c \in Clients :
               \/ pc[c] = "target" /\ e.id = commentId[c]
               \/ /\ e.id \in pending[c]
                  /\ e \in Subtree(allComments[c], commentId[c])
                  /\ e.postId = postId[c]
      /\ \A d \in comments' : \A e \in created : d.id = e.id => d = e
      /\ \A p \in DOMAIN posts :
           /\ p \in DOMAIN posts'
           /\ posts'[p] # posts[p] =>
                /\ \E c \in Clients : pc[c] = "counter" /\ postId[c] = p
                /\ posts'[p] = [posts[p] EXCEPT !.commentCount = posts'[p].commentCount]
                /\ comments' = comments ]_vars

C24_Witness ==
  \E c \in Clients :
    /\ pc[c] = "done"
    /\ Len(posts) = 2
    /\ totalDeleted[c] = 1
    /\ posts[postId[c]].commentCount = pre[c].count - 1
    /\ Cardinality({e \in comments : e \in pre[c].comments /\ e.postId = postId[c]}) = 2

\* ------------------------------------------------------ the sign of the count

\* C25: no post's commentCount is negative in any reachable state.
C25_CountNonNegative ==
  \A p \in DOMAIN posts : posts[p].commentCount >= 0

\* ------------------------------------------------- account and users document

\* The uids the identity provider has created an account for.
Accounts == 1..(nextUid - 1)

\* C26: once a signup attempt is over, every identity-provider account has its
\* users document.
C26_AccountHasDocument ==
  NoSignupRunning => \A uid \in Accounts : \E u \in users : u.id = uid

\* ------------------------------------------------- the AuthContext user

outsideAuth == <<commentVars, userVars, nameVars, textVars, viewVars, extraVars>>

DigitChars == <<"0", "1", "2", "3", "4", "5", "6", "7", "8", "9">>

\* `user_${firebaseUser.uid.slice(0, 8)}`
FallbackUsername(uid) == <<"u", "s", "e", "r", "_", DigitChars[uid + 1]>>

\* onAuthStateChanged calls back with the user the session was signed in as:
\* getDoc(doc(db, 'users', firebaseUser.uid)) is issued
AuthStateChanged(c) ==
  /\ authUid[c] # 0
  /\ listener[c].pc = "idle"
  /\ listener[c].uid # authUid[c]
  /\ listener' = [listener EXCEPT ![c] = [pc |-> "reading", uid |-> authUid[c],
                                          username |-> <<>>]]
  /\ UNCHANGED <<authUid, ctx>>
  /\ UNCHANGED outsideAuth

\* the read is served from the store as it is now: the document's username
\* (userData.username || ''), or the fallback identity when there is no document
UserDocRead(c) ==
  /\ listener[c].pc = "reading"
  /\ listener' = [listener EXCEPT ![c].pc = "got",
       ![c].username =
          IF \E u \in users : u.id = listener[c].uid
          THEN (CHOOSE u \in users : u.id = listener[c].uid).username
          ELSE FallbackUsername(listener[c].uid)]
  /\ UNCHANGED <<authUid, ctx>>
  /\ UNCHANGED outsideAuth

\* the read rejects: the catch block builds the fallback identity
UserDocReadFail(c) ==
  /\ listener[c].pc = "reading"
  /\ listener' = [listener EXCEPT ![c].pc = "got",
                                  ![c].username = FallbackUsername(listener[c].uid)]
  /\ UNCHANGED <<authUid, ctx>>
  /\ UNCHANGED outsideAuth

\* the callback resumes after its await: setUser({ id: firebaseUser.uid, ... })
ListenerSetUser(c) ==
  /\ listener[c].pc = "got"
  /\ ctx' = [ctx EXCEPT ![c] = [id |-> listener[c].uid, username |-> listener[c].username]]
  /\ listener' = [listener EXCEPT ![c].pc = "idle"]
  /\ UNCHANGED authUid
  /\ UNCHANGED outsideAuth

\* signups through the modal, one createUser call at a time, with the
\* auth-state listener of each session
NextAuth ==
  \E c \in Registrants :
    \/ \E typed \in SignupNames : UsernameChange(c, typed)
    \/ NoSignupRunning /\ SignupSubmit(c)
    \/ CheckUsername(c)
    \/ CheckFail(c)
    \/ WriteUser(c)
    \/ WriteFail(c)
    \/ SignupSettled(c)
    \/ AuthStateChanged(c)
    \/ UserDocRead(c)
    \/ UserDocReadFail(c)
    \/ ListenerSetUser(c)

SpecAuth == Init /\ [][NextAuth]_vars

\* C27: once a successful signup and the listener's callback for it are both
\* over, the context user is the registered one.
C27_RegisteredIdentityStays ==
  \A c \in Clients :
    ( /\ signup[c].pc = "idle"
      /\ listener[c].pc = "idle"
      /\ listener[c].uid = authUid[c]
      /\ \E u \in users : u.id = authUid[c] ) =>
        \E u \in users : u.id = authUid[c] /\ ctx[c] = [id |-> u.id, username |-> u.username]

\* ------------------------------------------------- listeners after unmount

\* C28: no session is left with a comments listener that was registered by a
\* page it has unmounted.
C28_NoListenerAfterUnmount ==
  \A c \in Clients : view[c].sub # "leaked"

\* ------------------------------------------------- the availability mark

\* C29: usernameAvailable becomes true only through a check that was made for
\* the username now in the field and that found it not taken.
C29_AvailableForCurrentValue ==
  [][\A c \in Clients :
       (form'[c].report = "available" /\ form[c].report # "available") =>
         /\ form[c].asked = <<form'[c].username>>
         /\ ~UsernameExists(users, form'[c].username)]_vars

\* ------------------------------------------------- the reply mention

outsideReply == <<runVars, descVars, walkVars, userVars, nameVars, textVars, viewVars,
                  pageVars, authVars>>

MaxLookups == 2

\* The postId prop of the comments section: the seeded post.
SectionPost == 1

\* handleReplyClick(comment) up to its await: setReplyingTo(comment.id); the
\* comment the client holds has no author.username
\* (convertServiceCommentToComment), so getUsernameById(comment.author.id) is
\* started. The handler keeps the newComment of the render it was created in.
ReplyClick(c, x) ==
  /\ x \in comments
  /\ x.postId = SectionPost
  /\ Cardinality(reply[c].lookups) < MaxLookups
  /\ reply' = [reply EXCEPT ![c].replyingTo = x.id,
                            ![c].lookups = @ \cup {[id |-> x.id, author |-> x.authorId,
                                                    seen |-> reply[c].mention]}]
  /\ UNCHANGED storeVars
  /\ UNCHANGED outsideReply

\* getUsernameById settles (the username, or null and the name is used): the
\* handler resumes, and unless the newComment it kept starts with the mention
\* it calls setNewComment(`@${username} `)
LookupSettled(c, l) ==
  /\ l \in reply[c].lookups
  /\ reply' = [reply EXCEPT ![c].lookups = @ \ {l},
                            ![c].mention = IF l.seen = l.author THEN @ ELSE l.author]
  /\ UNCHANGED storeVars
  /\ UNCHANGED outsideReply

\* the Cancel button of the 'Replying to' line: setReplyingTo(null), setNewComment('')
ReplyCancel(c) ==
  /\ reply[c].replyingTo # 0
  /\ \E x \in comments : x.id = reply[c].replyingTo /\ x.postId = SectionPost
  /\ reply' = [reply EXCEPT ![c].replyingTo = 0, ![c].mention = 0]
  /\ UNCHANGED storeVars
  /\ UNCHANGED outsideReply

\* handleCommentSubmit with a non-empty input: onAddComment(postId,
\* newComment.trim(), replyingTo), then setNewComment('') and setReplyingTo(null)
ReplySubmit(c, ok) ==
  /\ reply[c].mention # 0
  /\ AddCommentDoc(c, SectionPost, reply[c].replyingTo, ok)
  /\ reply' = [reply EXCEPT ![c].replyingTo = 0, ![c].mention = 0]
  /\ UNCHANGED outsideReply

\* the session that has the page open uses its comments section
NextReply ==
  \E c \in Viewers :
    \/ \E x \in comments : ReplyClick(c, x)
    \/ \E l \in reply[c].lookups : LookupSettled(c, l)
    \/ ReplyCancel(c)
    \/ \E ok \in BOOLEAN : ReplySubmit(c, ok)

SpecReply == Init /\ [][NextReply]_vars

\* C30: whenever a mention is put into the comment input, it names the author
\* of the comment that replyingTo designates at that moment.
C30_MentionNamesReplyTarget ==
  [][\A c \in Clients :
       (reply'[c].mention # reply[c].mention /\ reply'[c].mention # 0) =>
         \E x \in created : /\ x.id = reply'[c].replyingTo
                            /\ x.authorId = reply'[c].mention]_vars

====
